---- MODULE Spec2Model ----
(***************************************************************************)
(* Model of the label parsing / re-encoding core of the print server       *)
(* (print-server/services.py, class NokiaLabelService).                    *)
(*                                                                         *)
(* A text is a sequence of one-character strings.  The three control       *)
(* characters the program names are written GS, RS and EOT.  Line breaks   *)
(* are outside the modelled alphabet (a scan is one line), so the regular  *)
(* expressions' "." matches every modelled character and "$" is the end of *)
(* the text.                                                               *)
(***************************************************************************)
EXTENDS Integers, Sequences, FiniteSets, TLC

\* raw_input           the scanned text handed to generate_label
\* pc                  how far the request has got: "request", "parsed",
\*                     "constructed", "rescanned"
\* cleaned             clean_string as the delimiter detection sees it
\* data                the record parse_nokia_string returned
\* datamatrix_content  the envelope construct_iso15434_string built from data
\* reparsed            the record parsed from a scan of that envelope
VARIABLES raw_input, pc, cleaned, data, datamatrix_content, reparsed

vars == <<raw_input, pc, cleaned, data, datamatrix_content, reparsed>>

-----------------------------------------------------------------------------
(* Characters and fixed texts                                              *)

GS == "GS"
RS == "RS"
EOT == "EOT"
SP == " "

Marker == <<"[", ")", ">">>
FormatId == <<"0", "6">>
MarkerFormat == Marker \o FormatId
UNKNOWN == <<"U", "N", "K", "N", "O", "W", "N">>
QtyOne == <<"1">>

P1 == <<"1", "P">>
PS == <<"S">>
PQ == <<"Q">>
P4L == <<"4", "L">>
P18V == <<"1", "8", "V">>
P10D == <<"1", "0", "D">>

Digits == {"0", "1", "2", "3", "4", "5", "6", "7", "8", "9"}

\* str.isspace() of the modelled characters: Python counts chr(28)..chr(31)
\* as whitespace, so strip() removes GS and RS as well as blanks; EOT is not.
IsSpace(c) == c \in {SP, GS, RS}

IsDigit(c) == c \in Digits

\* What an out-of-range index or a group() of a failed match raises.
IndexError == <<"!IndexError">>
AttributeError == <<"!AttributeError">>

-----------------------------------------------------------------------------
(* str primitives                                                          *)

RECURSIVE LStrip(_)
LStrip(s) == IF s # <<>> /\ IsSpace(Head(s)) THEN LStrip(Tail(s)) ELSE s

RECURSIVE RStrip(_)
RStrip(s) ==
    IF s # <<>> /\ IsSpace(s[Len(s)]) THEN RStrip(SubSeq(s, 1, Len(s) - 1)) ELSE s

\* str.strip()
Strip(s) == RStrip(LStrip(s))

\* s[i-1:] in Python's 0-based slices
From(s, i) == SubSeq(s, i, Len(s))

StartsWithAt(s, pat, i) ==
    /\ i >= 1
    /\ i + Len(pat) - 1 <= Len(s)
    /\ SubSeq(s, i, i + Len(pat) - 1) = pat

\* str.startswith
StartsWith(s, pat) == StartsWithAt(s, pat, 1)

\* str.find from position i: the first index at which pat occurs, 0 if none
RECURSIVE Find(_, _, _)
Find(s, pat, i) ==
    IF i + Len(pat) - 1 > Len(s) THEN 0
    ELSE IF StartsWithAt(s, pat, i) THEN i
    ELSE Find(s, pat, i + 1)

\* pat in s
Contains(s, pat) == Find(s, pat, 1) # 0

\* str.split(d)
RECURSIVE Split(_, _)
Split(s, d) ==
    LET i == Find(s, d, 1)
    IN  IF i = 0 THEN <<s>>
        ELSE <<SubSeq(s, 1, i - 1)>> \o Split(From(s, i + Len(d)), d)

\* str.split(d, 1)
SplitOnce(s, d) ==
    LET i == Find(s, d, 1)
    IN  IF i = 0 THEN <<s>>
        ELSE <<SubSeq(s, 1, i - 1), From(s, i + Len(d))>>

\* list[k] with Python's 0-based k
Item(list, k) == IF k + 1 \in DOMAIN list THEN list[k + 1] ELSE IndexError

\* d.join(list)
RECURSIVE Join(_, _)
Join(d, list) ==
    IF list = <<>> THEN <<>>
    ELSE IF Len(list) = 1 THEN list[1]
    ELSE list[1] \o d \o Join(d, Tail(list))

-----------------------------------------------------------------------------
(* Regular expressions                                                     *)

NoMatch == [matched |-> FALSE, start |-> 0, groups |-> <<>>]

\* match.group(k); None.group(k) raises
Group(m, k) == IF m.matched THEN m.groups[k] ELSE AttributeError

\* (.*?)(?=t1|t2|...|$) from position j: the first position at or after j
\* where one of the stop tokens starts, or the end of the text
RECURSIVE LazyEnd(_, _, _)
LazyEnd(s, stops, j) ==
    IF j > Len(s) \/ \E t \in stops : StartsWithAt(s, t, j) THEN j
    ELSE LazyEnd(s, stops, j + 1)

\* re.search(prefix(.*?)(?=stops|$), s)
SearchField(s, prefix, stops) ==
    LET i == Find(s, prefix, 1)
        b == i + Len(prefix)
    IN  IF i = 0 THEN NoMatch
        ELSE [matched |-> TRUE, start |-> i,
              groups |-> <<SubSeq(s, b, LazyEnd(s, stops, b) - 1)>>]

\* \d+ from position j: the position after the longest run of digits
RECURSIVE DigitsEnd(_, _)
DigitsEnd(s, j) ==
    IF j <= Len(s) /\ IsDigit(s[j]) THEN DigitsEnd(s, j + 1) ELSE j

\* the first position at or after i holding Q followed by a digit, 0 if none
RECURSIVE FindQDigit(_, _)
FindQDigit(s, i) ==
    IF i + 1 > Len(s) THEN 0
    ELSE IF s[i] = "Q" /\ IsDigit(s[i + 1]) THEN i
    ELSE FindQDigit(s, i + 1)

\* re.search(r'Q(\d+)(.*)$', s)
SearchQty(s) ==
    LET i == FindQDigit(s, 1)
        e == DigitsEnd(s, i + 1)
    IN  IF i = 0 THEN NoMatch
        ELSE [matched |-> TRUE, start |-> i,
              groups |-> <<SubSeq(s, i + 1, e - 1), From(s, e)>>]

\* re.fullmatch(r'\d+', s)
FullMatchDigits(s) == s # <<>> /\ \A i \in DOMAIN s : IsDigit(s[i])

\* re.match(r'^(\d+)(.*)$', s)
MatchDigitsSuffix(s) ==
    LET e == DigitsEnd(s, 1)
    IN  IF e = 1 THEN NoMatch
        ELSE [matched |-> TRUE, start |-> 1,
              groups |-> <<SubSeq(s, 1, e - 1), From(s, e)>>]

-----------------------------------------------------------------------------
(* NokiaLabelService._split_additional_segments                            *)

\* the alternation 4L|18V|10D, in the pattern's order
AuxPattern == <<P4L, P18V, P10D>>

\* the first alternative that matches at position i, <<>> if none does
RECURSIVE AltAt(_, _, _)
AltAt(s, alts, i) ==
    IF alts = <<>> THEN <<>>
    ELSE IF StartsWithAt(s, Head(alts), i) THEN Head(alts)
    ELSE AltAt(s, Tail(alts), i)

\* re.finditer of an alternation: the start positions of its
\* non-overlapping matches from position i on, left to right
RECURSIVE FindAll(_, _, _)
FindAll(s, alts, i) ==
    IF i > Len(s) THEN <<>>
    ELSE LET a == AltAt(s, alts, i)
         IN  IF a # <<>> THEN <<i>> \o FindAll(s, alts, i + Len(a))
             ELSE FindAll(s, alts, i + 1)

\* the loop over the matches: the segment of match i runs to the next match
RECURSIVE MatchSegments(_, _, _)
MatchSegments(payload, matches, i) ==
    IF i > Len(matches) THEN <<>>
    ELSE LET start == matches[i]
             end == IF i + 1 <= Len(matches) THEN matches[i + 1]
                    ELSE Len(payload) + 1
             segment == Strip(SubSeq(payload, start, end - 1))
         IN  (IF segment # <<>> THEN <<segment>> ELSE <<>>)
                 \o MatchSegments(payload, matches, i + 1)

\* the splitter without the text before the first match
SplitWithoutLeading(text) ==
    LET payload == Strip(text)
        matches == FindAll(payload, AuxPattern, 1)
    IN  IF payload = <<>> THEN <<>>
        ELSE IF matches = <<>> THEN <<payload>>
        ELSE MatchSegments(payload, matches, 1)

split_additional_segments(text) ==
    LET payload == Strip(text)
        matches == FindAll(payload, AuxPattern, 1)
        leading == Strip(SubSeq(payload, 1, matches[1] - 1))
    IN  IF payload = <<>> THEN <<>>
        ELSE IF matches = <<>> THEN <<payload>>
        ELSE (IF matches[1] > 1 /\ leading # <<>> THEN <<leading>> ELSE <<>>)
                 \o MatchSegments(payload, matches, 1)

-----------------------------------------------------------------------------
(* NokiaLabelService._extract_named_segments                               *)

\* the first position at or after i where an alternative matches, 0 if none
RECURSIVE FindAlt(_, _, _)
FindAlt(s, alts, i) ==
    IF i > Len(s) THEN 0
    ELSE IF AltAt(s, alts, i) # <<>> THEN i
    ELSE FindAlt(s, alts, i + 1)

\* the finditer loop: found maps a prefix to the first non-empty segment
\* that carries it; the next match is looked for where the last one ended
RECURSIVE ScanNamed(_, _, _, _, _)
ScanNamed(payload, prefixes, stop_tokens, pos, found) ==
    LET i == FindAlt(payload, prefixes, pos)
        prefix == AltAt(payload, prefixes, i)
        b == i + Len(prefix)
        e == LazyEnd(payload, stop_tokens, b)
        value == Strip(SubSeq(payload, b, e - 1))
        segment == prefix \o value
        found2 == IF prefix \notin DOMAIN found /\ Len(segment) > Len(prefix)
                  THEN [q \in DOMAIN found \cup {prefix} |->
                            IF q = prefix THEN segment ELSE found[q]]
                  ELSE found
    IN  IF i = 0 THEN found
        ELSE ScanNamed(payload, prefixes, stop_tokens, e, found2)

\* [found[prefix] for prefix in prefixes if prefix in found]
RECURSIVE InPrefixOrder(_, _)
InPrefixOrder(prefixes, found) ==
    IF prefixes = <<>> THEN <<>>
    ELSE (IF Head(prefixes) \in DOMAIN found THEN <<found[Head(prefixes)]>>
          ELSE <<>>) \o InPrefixOrder(Tail(prefixes), found)

extract_named_segments(text, prefixes, stop_tokens) ==
    LET payload == Strip(text)
    IN  IF payload = <<>> THEN <<>>
        ELSE InPrefixOrder(prefixes,
                 ScanNamed(payload, prefixes, stop_tokens, 1, [q \in {} |-> <<>>]))

-----------------------------------------------------------------------------
(* NokiaLabelService.parse_nokia_string                                    *)

\* s[k] of a text, Python's 0-based k, as a one-character text
CharAt(s, k) == IF k + 1 \in DOMAIN s THEN <<s[k + 1]>> ELSE IndexError

\* the record both modes start from
Defaults(raw_string) ==
    [part_no |-> UNKNOWN, serial_no |-> UNKNOWN, qty |-> QtyOne,
     raw |-> raw_string, serial_segments |-> <<>>, post_qty_segments |-> <<>>]

\* str.rsplit(d, 1)
RECURSIVE FindLast(_, _, _)
FindLast(s, pat, i) ==
    IF i < 1 THEN 0
    ELSE IF StartsWithAt(s, pat, i) THEN i
    ELSE FindLast(s, pat, i - 1)

RSplitOnce(s, d) ==
    LET i == FindLast(s, d, Len(s))
    IN  IF i = 0 THEN <<s>>
        ELSE <<SubSeq(s, 1, i - 1), From(s, i + Len(d))>>

\* the envelope handling cutting the footer at the last RS
UnwrapAtLastRS(clean_string) ==
    LET payload == IF Contains(clean_string, <<GS>>)
                   THEN Item(SplitOnce(clean_string, <<GS>>), 1)
                   ELSE clean_string
    IN  IF ~StartsWith(clean_string, Marker) THEN clean_string
        ELSE IF payload = IndexError THEN clean_string
        ELSE IF Contains(payload, <<RS>>) THEN Item(RSplitOnce(payload, <<RS>>), 0)
        ELSE IF Contains(payload, <<EOT>>) THEN Item(SplitOnce(payload, <<EOT>>), 0)
        ELSE payload

\* the envelope handling: an exception inside the try leaves clean_string
\* as it was assigned last
Unwrap(clean_string) ==
    LET payload == IF Contains(clean_string, <<GS>>)
                   THEN Item(SplitOnce(clean_string, <<GS>>), 1)
                   ELSE clean_string
    IN  IF ~StartsWith(clean_string, Marker) THEN clean_string
        ELSE IF payload = IndexError THEN clean_string
        ELSE IF Contains(payload, <<RS>>) THEN Item(SplitOnce(payload, <<RS>>), 0)
        ELSE IF Contains(payload, <<EOT>>) THEN Item(SplitOnce(payload, <<EOT>>), 0)
        ELSE payload

\* the candidates with a substitute character tried before GS
DelimitersSubstituteFirst == <<(<<"|">>), (<<GS>>), (<<"~">>), (<<GS>>)>>

\* the candidate delimiters, in the order they are tried
Delimiters == <<(<<GS>>), (<<"|">>), (<<"~">>), (<<GS>>)>>

\* the first candidate that occurs in the text; <<>> stands for None
RECURSIVE FirstPresent(_, _)
FirstPresent(delimiters, clean_string) ==
    IF delimiters = <<>> THEN <<>>
    ELSE IF Contains(clean_string, Head(delimiters)) THEN Head(delimiters)
    ELSE FirstPresent(Tail(delimiters), clean_string)

MainDelimiter(clean_string) == FirstPresent(Delimiters, clean_string)

\* "Clean header if it stuck around"
DropHeader(clean_string) ==
    IF StartsWith(clean_string, MarkerFormat) THEN From(clean_string, 6)
    ELSE IF StartsWith(clean_string, FormatId) THEN From(clean_string, 3)
    ELSE clean_string

\* the part number's stop tokens without the serial prefix
PartStopsWithoutSerial == {PQ, P18V, P4L, P10D}

PartStops == {PS, PQ, P18V, P4L, P10D}
SerialStops == {PQ, P1, P18V, P4L, P10D}
\* the scan's prefixes in the other order
NamedPrefixesSwapped == <<P18V, P4L>>

NamedPrefixes == <<P4L, P18V>>
NamedStops == {P4L, P18V, P10D, PQ, P1, PS}

\* step 1 of the heuristic: the part number
UndelimitedPart(parsed, clean_string) ==
    LET p_match == SearchField(clean_string, P1, PartStops)
    IN  IF p_match.matched
        THEN [parsed EXCEPT !.part_no = Strip(Group(p_match, 1))]
        ELSE parsed

\* step 2 recording the serial number without its segment
UndelimitedSerialNoSegments(parsed, clean_string) ==
    LET s_match == SearchField(clean_string, PS, SerialStops)
        val == Strip(Group(s_match, 1))
    IN  IF s_match.matched
        THEN [parsed EXCEPT !.serial_no = val]
        ELSE parsed

\* step 2: the serial number
UndelimitedSerial(parsed, clean_string) ==
    LET s_match == SearchField(clean_string, PS, SerialStops)
        val == Strip(Group(s_match, 1))
    IN  IF s_match.matched
        THEN [parsed EXCEPT !.serial_no = val, !.serial_segments = <<val>>]
        ELSE parsed

\* step 3 without its "if q_match:" guard
UndelimitedQtyUnguarded(parsed, clean_string) ==
    LET q_match == SearchQty(clean_string)
        digits == Group(q_match, 1)
        suffix == Strip(Group(q_match, 2))
        remainder == Strip(From(digits, 2) \o suffix)
    IN  IF suffix # <<>> /\ digits # <<>>
        THEN [parsed EXCEPT
                 !.qty = CharAt(digits, 0),
                 !.post_qty_segments =
                     IF remainder # <<>> THEN split_additional_segments(remainder)
                     ELSE @]
        ELSE [parsed EXCEPT !.qty = digits]

\* step 3 taking the first digit as the quantity whatever follows
UndelimitedQtyFirstDigit(parsed, clean_string) ==
    LET q_match == SearchQty(clean_string)
        digits == Group(q_match, 1)
        suffix == Strip(Group(q_match, 2))
        remainder == Strip(From(digits, 2) \o suffix)
    IN  IF ~q_match.matched THEN parsed
        ELSE [parsed EXCEPT
                 !.qty = CharAt(digits, 0),
                 !.post_qty_segments =
                     IF remainder # <<>> THEN split_additional_segments(remainder)
                     ELSE @]

\* step 3: the quantity and what is concatenated after it
UndelimitedQty(parsed, clean_string) ==
    LET q_match == SearchQty(clean_string)
        digits == Group(q_match, 1)
        suffix == Strip(Group(q_match, 2))
        remainder == Strip(From(digits, 2) \o suffix)
    IN  IF ~q_match.matched THEN parsed
        ELSE IF suffix # <<>> /\ digits # <<>>
        THEN [parsed EXCEPT
                 !.qty = CharAt(digits, 0),
                 !.post_qty_segments =
                     IF remainder # <<>> THEN split_additional_segments(remainder)
                     ELSE @]
        ELSE [parsed EXCEPT !.qty = digits]

\* the scan replacing the segments of step 3 even when it finds nothing
UndelimitedNormalizeAlways(parsed, clean_string) ==
    [parsed EXCEPT !.post_qty_segments =
        extract_named_segments(clean_string, NamedPrefixes, NamedStops)]

\* the scan of the whole payload for 4L and 18V, which replaces the
\* segments of step 3 when it finds any
UndelimitedNormalize(parsed, clean_string) ==
    LET normalized_segments ==
            extract_named_segments(clean_string, NamedPrefixes, NamedStops)
    IN  IF normalized_segments # <<>>
        THEN [parsed EXCEPT !.post_qty_segments = normalized_segments]
        ELSE parsed

ParseUndelimited(raw_string, clean_string) ==
    LET c == DropHeader(clean_string)
    IN  UndelimitedNormalize(
            UndelimitedQty(
                UndelimitedSerial(
                    UndelimitedPart(Defaults(raw_string), c), c), c), c)

\* the quantity branch taking every leading digit as the quantity
SegmentQtyAllDigits(parsed, seg) ==
    LET q_payload == Strip(From(seg, 2))
        m == MatchDigitsSuffix(q_payload)
        digits == Group(m, 1)
        suffix == Strip(Group(m, 2))
    IN  IF FullMatchDigits(q_payload) THEN [parsed EXCEPT !.qty = q_payload]
        ELSE IF ~m.matched THEN parsed
        ELSE IF suffix # <<>> /\ digits # <<>>
        THEN [parsed EXCEPT
                 !.qty = digits,
                 !.post_qty_segments = @ \o split_additional_segments(suffix)]
        ELSE [parsed EXCEPT !.qty = digits]

\* the quantity branch of the loop over the delimited segments
SegmentQty(parsed, seg) ==
    LET q_payload == Strip(From(seg, 2))
        m == MatchDigitsSuffix(q_payload)
        digits == Group(m, 1)
        suffix == Strip(Group(m, 2))
        remainder == Strip(From(digits, 2) \o suffix)
    IN  IF FullMatchDigits(q_payload) THEN [parsed EXCEPT !.qty = q_payload]
        ELSE IF ~m.matched THEN parsed
        ELSE IF suffix # <<>> /\ digits # <<>>
        THEN [parsed EXCEPT
                 !.qty = CharAt(digits, 0),
                 !.post_qty_segments =
                     IF remainder # <<>>
                     THEN @ \o split_additional_segments(remainder)
                     ELSE @]
        ELSE [parsed EXCEPT !.qty = digits]

\* the part branch setting part_no only while it is still the sentinel
SegmentPartFirstWins(parsed, seg) ==
    IF parsed.part_no = UNKNOWN THEN [parsed EXCEPT !.part_no = From(seg, 3)]
    ELSE parsed

\* one turn of the loop over the delimited segments
SegmentPart(parsed, seg) == [parsed EXCEPT !.part_no = From(seg, 3)]

\* the serial branch keeping the "S" it should drop
SegmentSerialKeepPrefix(parsed, seg) ==
    [parsed EXCEPT !.serial_segments = Append(@, seg)]

\* the serial branch appending only a remainder that is not empty
SegmentSerialSkipEmpty(parsed, seg) ==
    IF From(seg, 2) = <<>> THEN parsed
    ELSE [parsed EXCEPT !.serial_segments = Append(@, From(seg, 2))]

SegmentSerial(parsed, seg) ==
    [parsed EXCEPT !.serial_segments = Append(@, From(seg, 2))]

ClassifySegment(parsed, seg0) ==
    LET seg == Strip(seg0)
    IN  IF seg = <<>> THEN parsed
        ELSE IF StartsWith(seg, P1) THEN SegmentPart(parsed, seg)
        ELSE IF StartsWith(seg, PQ) THEN SegmentQty(parsed, seg)
        ELSE IF StartsWith(seg, PS) THEN SegmentSerial(parsed, seg)
        ELSE IF \E a \in {P4L, P18V, P10D} : StartsWith(seg, a)
        THEN [parsed EXCEPT !.post_qty_segments = Append(@, seg)]
        ELSE [parsed EXCEPT !.serial_segments = Append(@, seg)]

RECURSIVE ClassifyAll(_, _)
ClassifyAll(parsed, segments) ==
    IF segments = <<>> THEN parsed
    ELSE ClassifyAll(ClassifySegment(parsed, Head(segments)), Tail(segments))

\* after the loop, taking the first segment alone as serial_no
JoinSerialFirstOnly(parsed) ==
    IF parsed.serial_segments # <<>>
    THEN [parsed EXCEPT !.serial_no = parsed.serial_segments[1]]
    ELSE parsed

\* after the loop: serial_no is the segments joined by GS
JoinSerial(parsed) ==
    IF parsed.serial_segments # <<>>
    THEN [parsed EXCEPT !.serial_no = Join(<<GS>>, parsed.serial_segments)]
    ELSE parsed

ParseDelimited(raw_string, clean_string, main_delimiter) ==
    JoinSerial(ClassifyAll(Defaults(raw_string),
                           Split(clean_string, main_delimiter)))

\* the payload the delimiter detection sees
CleanString(raw_string) == Unwrap(Strip(raw_string))

parse_nokia_string(raw_string) ==
    LET clean_string == CleanString(raw_string)
        main_delimiter == MainDelimiter(clean_string)
    IN  IF main_delimiter = <<>> THEN ParseUndelimited(raw_string, clean_string)
        ELSE ParseDelimited(raw_string, clean_string, main_delimiter)

-----------------------------------------------------------------------------
(* NokiaLabelService.construct_iso15434_string                             *)

\* the loop over post_qty_segments: formatted += GS + segment
RECURSIVE AppendSegments(_, _)
AppendSegments(formatted, segments) ==
    IF segments = <<>> THEN formatted
    ELSE AppendSegments(formatted \o <<GS>> \o Head(segments), Tail(segments))

\* the serial part with "S" before every segment
RECURSIVE PrefixEach(_)
PrefixEach(list) ==
    IF list = <<>> THEN <<>> ELSE <<PS \o Head(list)>> \o PrefixEach(Tail(list))

SerialPartEachPrefixed(parsed_data) ==
    IF parsed_data.serial_segments # <<>>
    THEN Join(<<GS>>, PrefixEach(parsed_data.serial_segments)) \o <<GS>>
    ELSE PS \o parsed_data.serial_no \o <<GS>>

\* the serial part: "S" once, then the segments joined by GS
SerialPart(parsed_data) ==
    IF parsed_data.serial_segments # <<>>
    THEN PS \o Join(<<GS>>, parsed_data.serial_segments) \o <<GS>>
    ELSE PS \o parsed_data.serial_no \o <<GS>>

construct_iso15434_string(parsed_data) ==
    LET header == Marker \o <<RS>> \o FormatId \o <<GS>>
        part == header \o P1 \o parsed_data.part_no \o <<GS>>
        serial == part \o SerialPart(parsed_data)
        qty == serial \o PQ \o parsed_data.qty
        post == AppendSegments(qty, parsed_data.post_qty_segments)
    IN  post \o <<RS, EOT>>

-----------------------------------------------------------------------------
(* The requests: generate_label parses the scan and builds the envelope     *)
(* that is printed as a DataMatrix; scanning the printed label sends the    *)
(* envelope back through the parser.                                        *)

RECURSIVE Flatten(_)
Flatten(ts) == IF ts = <<>> THEN <<>> ELSE Head(ts) \o Flatten(Tail(ts))

\* the sequences of at least lo and at most hi members of T
SeqsOf(T, lo, hi) == UNION {[1..k -> T] : k \in lo..hi}

\* Concatenated scans: up to MaxFields fields written one after another
\* with nothing between them.
MaxFields == 3

TIN == <<"I", "N">>
TLENOK == <<"L", "E", "N", "O", "K">>

ConcatFields ==
    {P1, P1 \o <<"A">>, PS, PS \o <<"B">>, PQ, PQ \o <<"1">>, PQ \o <<"1", "2">>,
     P4L, P4L \o TIN, P18V, P18V \o TLENOK, P10D \o <<"Z">>,
     FormatId, <<"A">>, <<SP>>}

ConcatInputs == {Flatten(ts) : ts \in SeqsOf(ConcatFields, 0, MaxFields)}

\* Delimited scans: up to MaxSegments segments joined by one of the three
\* delimiters.
MaxSegments == 3

TABC == <<"A", "B", "C">>
TXY == <<"X", "Y">>
TZ1 == <<"Z", "1">>

ScanSegments ==
    {P1 \o TABC, P1 \o <<"D">>, PS \o TXY, PS, TZ1, <<SP>> \o TZ1,
     PQ \o <<"1">>, PQ \o <<"1", "2">>, PQ \o <<"1", "2", SP, "A">>,
     PQ \o <<"1">> \o P4L \o TIN \o P18V \o TLENOK,
     PQ \o <<"1">> \o P18V \o TLENOK \o P4L \o TIN,
     P4L \o TIN, P18V \o TLENOK, <<"A", "|", "B">>, <<"A", "~", "B">>}

DelimitedInputs ==
    {Join(<<d>>, segs) : d \in {GS, "|", "~"},
                         segs \in SeqsOf(ScanSegments, 1, MaxSegments)}

\* Envelopes, whole, truncated or malformed: up to MaxTokens pieces of an
\* envelope in any order.
MaxTokens == 3

Header == Marker \o <<RS>> \o FormatId \o <<GS>>
Footer == <<RS, EOT>>

EnvelopeTokens ==
    {Header, Footer, Marker, FormatId, <<RS>>, <<GS>>, <<EOT>>, <<SP>>,
     P1 \o <<"A">>, PS \o <<"B">>, PQ \o <<"1">>, <<"|">>}

EnvelopeInputs == {Flatten(ts) : ts \in SeqsOf(EnvelopeTokens, 0, MaxTokens)}

ScanInputs == ConcatInputs \cup DelimitedInputs \cup EnvelopeInputs

None == <<"!None">>

Start(inputs) ==
    /\ raw_input \in inputs
    /\ pc = "request"
    /\ cleaned = None
    /\ data = None
    /\ datamatrix_content = None
    /\ reparsed = None

\* generate_label, step 1: data = self.parse_nokia_string(raw_string)
ParseData ==
    /\ pc = "request"
    /\ cleaned' = CleanString(raw_input)
    /\ data' = parse_nokia_string(raw_input)
    /\ pc' = "parsed"
    /\ UNCHANGED <<raw_input, datamatrix_content, reparsed>>

\* generate_label, step 2: datamatrix_content = self.construct_iso15434_string(data)
ConstructContent ==
    /\ pc = "parsed"
    /\ datamatrix_content' = construct_iso15434_string(data)
    /\ pc' = "constructed"
    /\ UNCHANGED <<raw_input, cleaned, data, reparsed>>

\* the printed envelope is scanned and parsed again
Rescan ==
    /\ pc = "constructed"
    /\ reparsed' = parse_nokia_string(datamatrix_content)
    /\ pc' = "rescanned"
    /\ UNCHANGED <<raw_input, cleaned, data, datamatrix_content>>

Init == Start(ScanInputs)

Next == ParseData \/ ConstructContent \/ Rescan

Spec == Init /\ [][Next]_vars

\* Well-formed delimited scans: a 1P segment, one or more serial segments, a
\* Q segment of digits and optional auxiliary segments, joined by GS, bare
\* or inside an envelope.  Every field value is non-empty and free of
\* whitespace and control characters.
MaxSerialSegments == 2
MaxAuxSegments == 1

PartValues == {TABC, <<"D">>}

SerialSegmentForms ==
    {PS \o TXY, TZ1, PS \o <<"S", "N", "1">>, PS \o P4L \o <<"B">>}

QtyValues == {<<"1">>, <<"1", "2">>}

AuxSegmentForms == {P4L \o TIN, P18V \o TLENOK}

WellFormedPayloads ==
    {Join(<<GS>>, <<P1 \o p>> \o ss \o <<PQ \o q>> \o aux) :
        p \in PartValues,
        ss \in SeqsOf(SerialSegmentForms, 1, MaxSerialSegments),
        q \in QtyValues,
        aux \in SeqsOf(AuxSegmentForms, 0, MaxAuxSegments)}

WellFormedInputs ==
    WellFormedPayloads \cup {Header \o w \o Footer : w \in WellFormedPayloads}

InitRoundTrip == Start(WellFormedInputs)

SpecRoundTrip == InitRoundTrip /\ [][Next]_vars

\* Labels handed to the constructor directly, whatever produced them.
MaxLabelSegments == 2

TPart == <<"4", "7", "5", "7", "7", "3", "A", ".", "1", "0">>
TSerial == <<"2", "U", "K", "2", "5", "4", "5", "A", "0", "5">>

Labels ==
    [raw : {<<>>},
     part_no : {TPart, <<"A">>, UNKNOWN},
     serial_no : {TSerial, <<"X">>, UNKNOWN},
     qty : QtyValues,
     serial_segments : SeqsOf({TSerial, TXY, TZ1}, 0, MaxLabelSegments),
     post_qty_segments :
         SeqsOf({P4L \o TIN, P18V \o TLENOK, P10D \o <<"Z">>}, 0, MaxLabelSegments)]

InitLabel ==
    /\ data \in Labels
    /\ raw_input = data.raw
    /\ pc = "parsed"
    /\ cleaned = None
    /\ datamatrix_content = None
    /\ reparsed = None

NextLabel == ConstructContent \/ Rescan

SpecLabel == InitLabel /\ [][NextLabel]_vars

\* Texts handed to the splitter directly: up to MaxPieces pieces, prefixes,
\* parts of prefixes and other characters, written one after another.
MaxPieces == 3

SplitPieces ==
    {P4L, P18V, P10D, <<"A">>, <<"1">>, <<"4">>, <<"L">>, <<"8">>, <<"V">>,
     <<"0">>, <<"D">>, <<SP>>, <<GS>>, <<EOT>>}

SplitTexts == {Flatten(ts) : ts \in SeqsOf(SplitPieces, 0, MaxPieces)}

InitSplit ==
    /\ raw_input \in SplitTexts
    /\ pc = "text"
    /\ cleaned = None
    /\ data = None
    /\ datamatrix_content = None
    /\ reparsed = None

\* segments = self._split_additional_segments(text)
SplitText ==
    /\ pc = "text"
    /\ data' = split_additional_segments(raw_input)
    /\ pc' = "split"
    /\ UNCHANGED <<raw_input, cleaned, datamatrix_content, reparsed>>

NextSplit == SplitText

SpecSplit == InitSplit /\ [][NextSplit]_vars

-----------------------------------------------------------------------------
(* Vocabulary of the properties                                            *)

ErrorMarks == {"!IndexError", "!AttributeError", "!None"}

\* a text none of whose characters is the trace of a raised exception
IsText(t) == DOMAIN t = 1..Len(t) /\ \A i \in DOMAIN t : t[i] \notin ErrorMarks

IsTextList(l) == DOMAIN l = 1..Len(l) /\ \A i \in DOMAIN l : IsText(l[i])

LabelFields ==
    {"raw", "part_no", "serial_no", "serial_segments", "qty", "post_qty_segments"}

Parsed == pc \in {"parsed", "constructed", "rescanned"}

\* the mode parse_nokia_string took for the scan
Undelimited == MainDelimiter(cleaned) = <<>>
Delimited == MainDelimiter(cleaned) # <<>>

-----------------------------------------------------------------------------
(* C1: parse_nokia_string never raises and always returns a record with    *)
(* the six fields raw, part_no, serial_no, serial_segments, qty and        *)
(* post_qty_segments; a field that could not be extracted holds its        *)
(* sentinel (part_no and serial_no "UNKNOWN", qty "1", the two lists       *)
(* empty), and the empty string yields exactly the sentinels.              *)
C1_ParseTotalWithSentinels ==
    Parsed =>
        /\ DOMAIN data = LabelFields
        /\ data.raw = raw_input
        /\ IsText(data.part_no) /\ IsText(data.serial_no) /\ IsText(data.qty)
        /\ IsTextList(data.serial_segments)
        /\ IsTextList(data.post_qty_segments)
        /\ ~Contains(raw_input, P1) => data.part_no = UNKNOWN
        /\ data.serial_segments = <<>> => data.serial_no = UNKNOWN
        /\ (Undelimited /\ ~Contains(raw_input, PS)) =>
               data.serial_segments = <<>>
        /\ ~Contains(raw_input, PQ) => data.qty = QtyOne
        /\ (~Contains(raw_input, PQ)
              /\ \A a \in {P4L, P18V, P10D} : ~Contains(raw_input, a)) =>
               data.post_qty_segments = <<>>
        /\ raw_input = <<>> =>
               data = [raw |-> <<>>, part_no |-> UNKNOWN, serial_no |-> UNKNOWN,
                       qty |-> QtyOne, serial_segments |-> <<>>,
                       post_qty_segments |-> <<>>]

\* a truncated envelope (the header alone) has been parsed to the sentinels
C1_Witness ==
    /\ pc = "parsed"
    /\ raw_input = Header
    /\ data.part_no = UNKNOWN /\ data.serial_no = UNKNOWN /\ data.qty = QtyOne
    /\ data.serial_segments = <<>> /\ data.post_qty_segments = <<>>

-----------------------------------------------------------------------------
(* C2 (as stated): for every well-formed delimited scan P, parsing the     *)
(* envelope built from parse(P) gives the same part_no, serial_no,         *)
(* serial_segments, qty and post_qty_segments as parse(P).                 *)
SameFields(a, b) ==
    /\ a.part_no = b.part_no
    /\ a.serial_no = b.serial_no
    /\ a.serial_segments = b.serial_segments
    /\ a.qty = b.qty
    /\ a.post_qty_segments = b.post_qty_segments

C2_Original == pc = "rescanned" => SameFields(reparsed, data)

KnownPrefixes == {P1, PQ, PS, P4L, P18V, P10D}

\* no stored serial segment after the first starts with a known prefix
ContinuationsPlain(label) ==
    \A i \in 2..Len(label.serial_segments) :
        \A k \in KnownPrefixes : ~StartsWith(label.serial_segments[i], k)

(* C2 (amended): the round trip of a well-formed delimited scan preserves  *)
(* the five fields provided no serial segment after the first, as stored   *)
(* in serial_segments, itself begins with 1P, Q, S, 4L, 18V or 10D.        *)
C2_RoundTrip ==
    (pc = "rescanned" /\ ContinuationsPlain(data)) => SameFields(reparsed, data)

\* a scan with two serial segments and an auxiliary segment went round
C2_Witness ==
    /\ pc = "rescanned"
    /\ Len(data.serial_segments) = 2
    /\ ContinuationsPlain(data)
    /\ data.post_qty_segments # <<>>
    /\ data.part_no = TABC
    /\ SameFields(reparsed, data)

-----------------------------------------------------------------------------
(* C3: for every label L, construct_iso15434_string(L) is "[)>" RS "06" GS *)
(* "1P" part_no GS "S" serial GS "Q" qty, then GS and the segment for each *)
(* entry of post_qty_segments in order, then RS EOT, where serial is       *)
(* serial_segments joined by GS, or serial_no when there are none; "S" is  *)
(* written once and the construction never fails.                          *)
Built == pc \in {"constructed", "rescanned"}

ExpectedFields(L) ==
    <<P1 \o L.part_no,
      PS \o (IF L.serial_segments = <<>> THEN L.serial_no
             ELSE Join(<<GS>>, L.serial_segments)),
      PQ \o L.qty>> \o L.post_qty_segments

C3_EnvelopeFormat ==
    Built =>
        /\ IsText(datamatrix_content)
        /\ datamatrix_content =
               <<"[", ")", ">", RS, "0", "6", GS>>
                   \o Join(<<GS>>, ExpectedFields(data)) \o <<RS, EOT>>
        /\ (data.part_no = TPart /\ data.serial_no = TSerial
              /\ data.serial_segments = <<>> /\ data.qty = <<"1">>
              /\ data.post_qty_segments = <<>>) =>
               datamatrix_content =
                   <<"[", ")", ">", RS, "0", "6", GS, "1", "P">> \o TPart
                       \o <<GS, "S">> \o TSerial \o <<GS, "Q", "1", RS, EOT>>

\* a label with two serial segments and two auxiliary segments was built
C3_Witness ==
    /\ pc = "constructed"
    /\ data.part_no = TPart
    /\ data.serial_segments = <<TSerial, TZ1>>
    /\ data.post_qty_segments = <<P4L \o TIN, P18V \o TLENOK>>
    /\ data.qty = <<"1">>
    /\ datamatrix_content =
           <<"[", ")", ">", RS, "0", "6", GS, "1", "P">> \o TPart
               \o <<GS, "S">> \o TSerial \o <<GS>> \o TZ1
               \o <<GS, "Q", "1", GS>> \o P4L \o TIN \o <<GS>> \o P18V \o TLENOK
               \o <<RS, EOT>>

-----------------------------------------------------------------------------
(* Vocabulary of the segmentation properties                               *)

HasChar(t, c) == \E i \in DOMAIN t : t[i] = c

FirstPos(t, c) == CHOOSE i \in DOMAIN t : t[i] = c /\ \A j \in 1..(i - 1) : t[j] # c

LastPos(t, c) ==
    CHOOSE i \in DOMAIN t : t[i] = c /\ \A j \in (i + 1)..Len(t) : t[j] # c

\* the delimiter the priority rule picks for a payload, <<>> if none
Winner(t) ==
    IF HasChar(t, GS) THEN <<GS>>
    ELSE IF HasChar(t, "|") THEN <<"|">>
    ELSE IF HasChar(t, "~") THEN <<"~">>
    ELSE <<>>

\* the texts a label holds, serial_no (the segments joined) aside
FieldTexts(L) == <<L.part_no, L.qty>> \o L.serial_segments \o L.post_qty_segments

\* the non-empty trimmed segments of a delimited payload, in scan order
RECURSIVE Trimmed(_)
Trimmed(pieces) ==
    IF pieces = <<>> THEN <<>>
    ELSE (IF Strip(Head(pieces)) # <<>> THEN <<Strip(Head(pieces))>> ELSE <<>>)
             \o Trimmed(Tail(pieces))

SegmentsOf(t) == Trimmed(Split(t, Winner(t)))

WithPrefix(segs, k) == SelectSeq(segs, LAMBDA x : StartsWith(x, k))

-----------------------------------------------------------------------------
(* C4: the payload is segmented on exactly one delimiter, the first of GS, *)
(* "|", "~" that occurs anywhere in it: with GS present the substitute     *)
(* characters stay inside the field values, with "|" and "~" but no GS the *)
(* split is on "|" alone, and a payload with none of the three goes to the *)
(* undelimited pattern extraction.                                         *)
C4_DelimiterPriority ==
    Parsed =>
        LET w == Winner(cleaned)
        IN  /\ w # <<>> =>
                /\ data = ParseDelimited(raw_input, cleaned, w)
                /\ \A i \in DOMAIN FieldTexts(data) :
                       ~HasChar(FieldTexts(data)[i], w[1])
            /\ w = <<>> => data = ParseUndelimited(raw_input, cleaned)

\* a payload holding GS and "|" was split on GS, the "|" kept in a value
C4_Witness ==
    /\ pc = "parsed"
    /\ HasChar(cleaned, GS) /\ HasChar(cleaned, "|")
    /\ data.part_no = TABC
    /\ data.serial_segments = <<(<<"A", "|", "B">>)>>

-----------------------------------------------------------------------------
(* C5 (as stated, read on scans without surrounding whitespace): for an    *)
(* input that begins with "[)>" the payload is the text after the first GS *)
(* (the whole text when there is none) cut before the LAST RS in it, or    *)
(* before EOT when it has no RS; any other input is passed on unchanged.   *)
AfterFirstGS(t) == IF HasChar(t, GS) THEN From(t, FirstPos(t, GS) + 1) ELSE t

CutAt(t, c, pos(_, _)) ==
    IF HasChar(t, c) THEN SubSeq(t, 1, pos(t, c) - 1) ELSE t

PayloadCutAtLastRS(t) ==
    LET a == AfterFirstGS(t)
    IN  IF HasChar(a, RS) THEN CutAt(a, RS, LastPos) ELSE CutAt(a, EOT, FirstPos)

PayloadCutAtFirstRS(t) ==
    LET a == AfterFirstGS(t)
    IN  IF HasChar(a, RS) THEN CutAt(a, RS, FirstPos) ELSE CutAt(a, EOT, FirstPos)

C5_Original ==
    (Parsed /\ Strip(raw_input) = raw_input) =>
        cleaned = IF StartsWith(raw_input, Marker)
                  THEN PayloadCutAtLastRS(raw_input)
                  ELSE raw_input

(* C5 (amended): with t the input trimmed of surrounding whitespace, when  *)
(* t begins with "[)>" the payload is the text after the first GS of t     *)
(* (all of t when there is none) cut before the FIRST RS in it, or before  *)
(* the first EOT when it has no RS, and left as it is when it has neither; *)
(* when t does not begin with "[)>" the payload is t.                      *)
C5_Unwrap ==
    Parsed =>
        LET t == Strip(raw_input)
        IN  cleaned = IF StartsWith(t, Marker) THEN PayloadCutAtFirstRS(t) ELSE t

\* a whole envelope around 1PA was unwrapped to 1PA
C5_Witness ==
    /\ pc = "parsed"
    /\ raw_input = Header \o P1 \o <<"A">> \o Footer
    /\ cleaned = P1 \o <<"A">>
    /\ data.part_no = <<"A">>

-----------------------------------------------------------------------------
(* C6 (as stated): in delimited mode, with several segments starting with  *)
(* "1P", part_no is the remainder of the FIRST of them.                    *)
PartSegments == WithPrefix(SegmentsOf(cleaned), P1)

C6_Original ==
    (Parsed /\ Delimited /\ PartSegments # <<>>) =>
        data.part_no = From(PartSegments[1], 3)

\* the segments with every 1P segment but the last left out
RECURSIVE DropEarlierParts(_)
DropEarlierParts(segs) ==
    IF segs = <<>> THEN <<>>
    ELSE (IF StartsWith(Head(segs), P1) /\ WithPrefix(Tail(segs), P1) # <<>>
          THEN <<>> ELSE <<Head(segs)>>) \o DropEarlierParts(Tail(segs))

(* C6 (amended): last occurrence wins: in delimited mode, with several     *)
(* segments starting with "1P", part_no is the remainder of the LAST of    *)
(* them in scan order and every earlier 1P segment changes no field.       *)
C6_LastPartWins ==
    (Parsed /\ Delimited /\ PartSegments # <<>>) =>
        /\ data.part_no = From(PartSegments[Len(PartSegments)], 3)
        /\ SameFields(data,
               JoinSerial(ClassifyAll(Defaults(raw_input),
                                      DropEarlierParts(SegmentsOf(cleaned)))))

\* a scan with the segments 1PABC and 1PD, in this order, gave part_no D
C6_Witness ==
    /\ pc = "parsed"
    /\ Delimited
    /\ PartSegments = <<P1 \o TABC, P1 \o <<"D">>>>
    /\ data.part_no = <<"D">>

-----------------------------------------------------------------------------
(* Vocabulary of the quantity and auxiliary-segment properties             *)

\* the length of the longest run of digits a text starts with
DigitRun(t) ==
    CHOOSE n \in 0..Len(t) :
        /\ \A i \in 1..n : IsDigit(t[i])
        /\ n = Len(t) \/ ~IsDigit(t[n + 1])

QDigitAt(t, i) == i + 1 <= Len(t) /\ t[i] = "Q" /\ IsDigit(t[i + 1])

HasQDigit(t) == \E i \in DOMAIN t : QDigitAt(t, i)

\* the text after the first Q that a digit follows
AfterFirstQDigit(t) ==
    From(t, 1 + CHOOSE i \in DOMAIN t :
                    QDigitAt(t, i) /\ \A j \in 1..(i - 1) : ~QDigitAt(t, j))

IsAux(seg) == \E a \in {P4L, P18V, P10D} : StartsWith(seg, a)

\* a delimited segment that sets the quantity: "Q", then text that, once
\* trimmed, starts with a digit
IsQtySegment(seg) ==
    StartsWith(seg, PQ) /\ DigitRun(Strip(From(seg, 2))) > 0

\* the suffix as the rule uses it: trimmed of whitespace, or as it stands
Suffix(t, trimmed) == IF trimmed THEN Strip(t) ELSE t

\* the quantity the rule takes from the text after a Q prefix
RuleQty(t, trimmed) ==
    LET n == DigitRun(t)
    IN  IF Suffix(From(t, n + 1), trimmed) = <<>> THEN SubSeq(t, 1, n) ELSE <<t[1]>>

\* what the rule hands to the splitter: nothing for digits alone, else the
\* digits after the first followed by the suffix
RuleSegments(t, trimmed) ==
    LET n == DigitRun(t)
    IN  IF Suffix(From(t, n + 1), trimmed) = <<>> THEN <<>>
        ELSE split_additional_segments(SubSeq(t, 2, n) \o Suffix(From(t, n + 1), trimmed))

\* post_qty_segments of a delimited scan: each auxiliary segment and each
\* quantity segment's split, in scan order
RECURSIVE PostInScanOrder(_, _)
PostInScanOrder(segs, trimmed) ==
    IF segs = <<>> THEN <<>>
    ELSE LET seg == Head(segs)
         IN  (IF StartsWith(seg, P1) THEN <<>>
              ELSE IF IsQtySegment(seg)
                   THEN RuleSegments(Strip(From(seg, 2)), trimmed)
              ELSE IF StartsWith(seg, PQ) \/ StartsWith(seg, PS) THEN <<>>
              ELSE IF IsAux(seg) THEN <<seg>>
              ELSE <<>>) \o PostInScanOrder(Tail(segs), trimmed)

QtySegments == SelectSeq(SegmentsOf(cleaned), IsQtySegment)

\* the whole-payload scan finds something: some 4L or 18V in the payload is
\* followed by a value that is not blank
ScanFinds(t) ==
    \E a \in {P4L, P18V} : \E i \in DOMAIN t :
        /\ StartsWithAt(t, a, i)
        /\ \E j \in (i + Len(a))..Len(t) :
              /\ ~IsSpace(t[j])
              /\ \A m \in (i + Len(a))..j : \A k \in NamedStops : ~StartsWithAt(t, k, m)

-----------------------------------------------------------------------------
(* C7 (as stated): in both modes, when the text after the Q prefix is only *)
(* digits, qty is that digit string; when it is digits followed by a       *)
(* suffix, qty is the first digit and post_qty_segments receives the       *)
(* splitter's result for the remaining digits followed by the suffix.      *)
C7_Original ==
    Parsed =>
        /\ (Undelimited /\ HasQDigit(cleaned)) =>
               LET t == AfterFirstQDigit(cleaned)
               IN  /\ data.qty = RuleQty(t, FALSE)
                   /\ DigitRun(t) < Len(t) =>
                          data.post_qty_segments = RuleSegments(t, FALSE)
        /\ (Delimited /\ Len(QtySegments) = 1) =>
               /\ data.qty = RuleQty(From(QtySegments[1], 2), FALSE)
               /\ data.post_qty_segments =
                      PostInScanOrder(SegmentsOf(cleaned), FALSE)

(* C7 (amended): when the text after the Q prefix is only digits, or       *)
(* digits followed by nothing but whitespace, qty is the whole digit       *)
(* string; when a suffix follows the digits, qty is the first digit and    *)
(* the remaining digits followed by the suffix, trimmed of surrounding     *)
(* whitespace, go to the splitter.  In delimited mode the text after Q is  *)
(* trimmed first, the last Q segment that starts with a digit decides qty, *)
(* and the splitter's result is appended to post_qty_segments in scan      *)
(* order.  In undelimited mode the result becomes post_qty_segments unless *)
(* the whole-payload scan for 4L and 18V finds a segment, which then       *)
(* replaces it.                                                            *)
C7_QuantitySplit ==
    Parsed =>
        /\ (Undelimited /\ HasQDigit(cleaned)) =>
               LET t == AfterFirstQDigit(cleaned)
                   scan == extract_named_segments(DropHeader(cleaned),
                                                  <<P4L, P18V>>, NamedStops)
               IN  /\ data.qty = RuleQty(t, TRUE)
                   /\ Strip(From(t, DigitRun(t) + 1)) # <<>> =>
                          data.post_qty_segments =
                              IF scan # <<>> THEN scan ELSE RuleSegments(t, TRUE)
        /\ (Delimited /\ QtySegments # <<>>) =>
               data.qty = RuleQty(Strip(From(QtySegments[Len(QtySegments)], 2)),
                                  TRUE)
        /\ Delimited =>
               data.post_qty_segments = PostInScanOrder(SegmentsOf(cleaned), TRUE)

\* the delimited segment "Q12 A" gave qty 1 and the segment 2A
C7_Witness ==
    /\ pc = "parsed"
    /\ Delimited
    /\ QtySegments = <<PQ \o <<"1", "2", SP, "A">>>>
    /\ data.qty = <<"1">>
    /\ data.post_qty_segments = <<(<<"2", "A">>)>>

-----------------------------------------------------------------------------
(* C8 (as stated): in either mode a segment starting with "4L" always      *)
(* precedes a segment starting with "18V" in post_qty_segments, whatever   *)
(* their order in the input.                                               *)
CanonicalOrder(post) ==
    \A i, j \in DOMAIN post :
        (StartsWith(post[i], P18V) /\ StartsWith(post[j], P4L)) => j < i

C8_Original == Parsed => CanonicalOrder(data.post_qty_segments)

QIn4L18V == PQ \o <<"1">> \o P4L \o TIN \o P18V \o TLENOK
QIn18V4L == PQ \o <<"1">> \o P18V \o TLENOK \o P4L \o TIN

(* C8 (amended): in undelimited mode, whenever some 4L or 18V in the       *)
(* payload is followed by a non-blank value, post_qty_segments holds the   *)
(* 4L segment before the 18V segment whatever their order in the input:    *)
(* the undelimited payloads Q14LIN18VLENOK and Q118VLENOK4LIN both give    *)
(* qty 1 and [4LIN, 18VLENOK].  In delimited mode post_qty_segments keeps  *)
(* the scan order of the input.                                            *)
C8_CanonicalOrderUndelimited ==
    Parsed =>
        /\ (Undelimited /\ ScanFinds(cleaned)) =>
               /\ CanonicalOrder(data.post_qty_segments)
               /\ data.post_qty_segments # <<>>
        /\ (Undelimited /\ cleaned \in {QIn4L18V, QIn18V4L}) =>
               /\ data.qty = <<"1">>
               /\ data.post_qty_segments = <<P4L \o TIN, P18V \o TLENOK>>
        /\ (Delimited /\ QtySegments = <<>>) =>
               data.post_qty_segments = SelectSeq(SegmentsOf(cleaned), IsAux)
        /\ (Delimited /\ SegmentsOf(cleaned) = <<QIn18V4L>>) =>
               data.post_qty_segments = <<P18V \o TLENOK, P4L \o TIN>>

\* the undelimited payload Q118VLENOK4LIN was put into the order 4L, 18V
C8_Witness ==
    /\ pc = "parsed"
    /\ Undelimited
    /\ cleaned = QIn18V4L
    /\ data.qty = <<"1">>
    /\ data.post_qty_segments = <<P4L \o TIN, P18V \o TLENOK>>

-----------------------------------------------------------------------------
(* C9: in delimited mode a segment starting with "S" appends its remainder *)
(* to serial_segments and every segment that starts with none of 1P, Q, S, *)
(* 4L, 18V, 10D is appended as it is, all in scan order (segments being    *)
(* the non-empty trimmed pieces between delimiters); serial_no is these    *)
(* joined by GS.  The segments 1PABC, SXY, Z1 give part_no ABC,            *)
(* serial_segments [XY, Z1] and serial_no XY GS Z1.                        *)
RECURSIVE SerialInScanOrder(_)
SerialInScanOrder(segs) ==
    IF segs = <<>> THEN <<>>
    ELSE LET seg == Head(segs)
         IN  (IF StartsWith(seg, PS) THEN <<From(seg, 2)>>
              ELSE IF \E k \in KnownPrefixes : StartsWith(seg, k) THEN <<>>
              ELSE <<seg>>) \o SerialInScanOrder(Tail(segs))

ExampleSegments == <<P1 \o TABC, PS \o TXY, TZ1>>

C9_SerialContinuation ==
    (Parsed /\ Delimited) =>
        /\ data.serial_segments = SerialInScanOrder(SegmentsOf(cleaned))
        /\ data.serial_segments # <<>> =>
               data.serial_no = Join(<<GS>>, data.serial_segments)
        /\ SegmentsOf(cleaned) = ExampleSegments =>
               /\ data.part_no = TABC
               /\ data.serial_segments = <<TXY, TZ1>>
               /\ data.serial_no = TXY \o <<GS>> \o TZ1

\* the segments 1PABC, SXY, Z1 were parsed
C9_Witness ==
    /\ pc = "parsed"
    /\ Delimited
    /\ SegmentsOf(cleaned) = ExampleSegments
    /\ data.serial_segments = <<TXY, TZ1>>
    /\ data.serial_no = <<"X", "Y", GS, "Z", "1">>

-----------------------------------------------------------------------------
(* Vocabulary of the undelimited extraction                                *)

FirstOcc(t, tok) ==
    CHOOSE i \in DOMAIN t :
        StartsWithAt(t, tok, i) /\ \A j \in 1..(i - 1) : ~StartsWithAt(t, tok, j)

StopAt(t, stops, j) == j = Len(t) + 1 \/ \E k \in stops : StartsWithAt(t, k, j)

\* the text after the first tok up to the next stop token or the end
Between(t, tok, stops) ==
    LET b == FirstOcc(t, tok) + Len(tok)
        e == CHOOSE j \in b..(Len(t) + 1) :
                 StopAt(t, stops, j) /\ \A m \in b..(j - 1) : ~StopAt(t, stops, m)
    IN  SubSeq(t, b, e - 1)

HasToken(t) == \E k \in KnownPrefixes : \E i \in DOMAIN t : StartsWithAt(t, k, i)

\* the payload reads "1P" p "S" s "Q" d with p and s free of prefix tokens
\* and d one or more digits: the positions of its S and Q
FormSQ(t) ==
    {sq \in (DOMAIN t) \X (DOMAIN t) :
        /\ StartsWith(t, P1)
        /\ 2 < sq[1] /\ sq[1] < sq[2] /\ sq[2] < Len(t)
        /\ t[sq[1]] = "S" /\ t[sq[2]] = "Q"
        /\ ~HasToken(SubSeq(t, 3, sq[1] - 1))
        /\ ~HasToken(SubSeq(t, sq[1] + 1, sq[2] - 1))
        /\ \A i \in (sq[2] + 1)..Len(t) : IsDigit(t[i])}

\* trimmed says whether the extracted texts are trimmed of whitespace
UndelimitedExtraction(trimmed) ==
    (Parsed /\ Undelimited) =>
        /\ Contains(cleaned, P1) =>
               data.part_no = Suffix(Between(cleaned, P1, PartStops), trimmed)
        /\ Contains(cleaned, PS) =>
               /\ data.serial_no =
                      Suffix(Between(cleaned, PS, SerialStops), trimmed)
               /\ data.serial_segments = <<data.serial_no>>
        /\ IF HasQDigit(cleaned)
           THEN LET t == AfterFirstQDigit(cleaned)
                IN  data.qty \in {SubSeq(t, 1, DigitRun(t)), <<t[1]>>}
           ELSE data.qty = QtyOne
        /\ \A sq \in FormSQ(cleaned) :
               /\ data.part_no = Suffix(SubSeq(cleaned, 3, sq[1] - 1), trimmed)
               /\ data.serial_no =
                      Suffix(SubSeq(cleaned, sq[1] + 1, sq[2] - 1), trimmed)
               /\ data.qty = From(cleaned, sq[2] + 1)

(* C10 (as stated): for a payload with none of GS, "|", "~", part_no is    *)
(* the text after the first "1P" up to the next S, Q, 18V, 4L or 10D (or   *)
(* the end), serial_no the text after the first "S" up to the next Q, 1P,  *)
(* 18V, 4L or 10D (or the end) with serial_segments = [serial_no], and qty *)
(* comes from the first "Q" a digit follows; "1P" p "S" s "Q" d gives      *)
(* part_no = p, serial_no = s, qty = d.                                    *)
C10_Original == UndelimitedExtraction(FALSE)

(* C10 (amended): the same, with part_no and serial_no being those texts   *)
(* trimmed of surrounding whitespace (which for str.strip includes RS):    *)
(* "1P" p "S" s "Q" d gives part_no = p trimmed, serial_no = s trimmed,    *)
(* qty = d.                                                                *)
C10_UndelimitedExtraction == UndelimitedExtraction(TRUE)

\* the payload 1PA SB Q12 (no delimiter) was parsed
C10_Witness ==
    /\ pc = "parsed"
    /\ Undelimited
    /\ cleaned = <<"1", "P", "A", "S", "B", "Q", "1", "2">>
    /\ FormSQ(cleaned) = {<<4, 6>>}
    /\ data.part_no = <<"A">>
    /\ data.serial_no = <<"B">>
    /\ data.qty = <<"1", "2">>

-----------------------------------------------------------------------------
(* C11 (as stated): in every record parse_nokia_string returns, serial_no  *)
(* equals serial_segments joined by GS; the two never diverge.             *)
C11_Original == Parsed => data.serial_no = Join(<<GS>>, data.serial_segments)

\* the label with its serial_segments taken away, so that the constructor
\* takes the serial text from serial_no
WithoutSegments(L) == [L EXCEPT !.serial_segments = <<>>]

(* C11 (amended): when serial_segments is not empty, serial_no equals      *)
(* serial_segments joined by GS and the envelope is the same whether the   *)
(* serial text is taken from serial_segments or from serial_no; when no    *)
(* serial was found serial_segments is empty and serial_no is the sentinel *)
(* UNKNOWN, not the empty join.                                            *)
C11_SerialDerivable ==
    Parsed =>
        /\ data.serial_segments # <<>> =>
               /\ data.serial_no = Join(<<GS>>, data.serial_segments)
               /\ pc \in {"constructed", "rescanned"} =>
                      datamatrix_content =
                          construct_iso15434_string(WithoutSegments(data))
        /\ data.serial_segments = <<>> => data.serial_no = UNKNOWN

\* an envelope was built from a record with two serial segments
C11_Witness ==
    /\ pc = "constructed"
    /\ data.serial_segments = <<TXY, TZ1>>
    /\ data.serial_no = TXY \o <<GS>> \o TZ1
    /\ datamatrix_content = construct_iso15434_string(WithoutSegments(data))

-----------------------------------------------------------------------------
(* C12 (as stated): in every record parse_nokia_string returns,            *)
(* serial_segments contains no empty text: an "S" with nothing after it    *)
(* appends nothing.                                                        *)
C12_Original ==
    Parsed => \A i \in DOMAIN data.serial_segments : data.serial_segments[i] # <<>>

EmptySerials ==
    {i \in DOMAIN data.serial_segments : data.serial_segments[i] = <<>>}

\* the segments of a delimited payload that are a lone "S"
LoneSerials == SelectSeq(SegmentsOf(cleaned), LAMBDA seg : seg = PS)

(* C12 (amended): an "S" with nothing after it appends the empty text.  In *)
(* delimited mode serial_segments holds one empty text for every segment   *)
(* that is a lone "S" and no other empty text; in undelimited mode         *)
(* serial_segments is [""] exactly when the first "S" is followed, blanks  *)
(* aside, by the next of Q, 1P, 18V, 4L, 10D or by the end.  A record      *)
(* whose only serial segment is empty has the empty serial_no.             *)
C12_EmptySerialSegments ==
    Parsed =>
        /\ Delimited => Cardinality(EmptySerials) = Len(LoneSerials)
        /\ Undelimited =>
               /\ Len(data.serial_segments) <= 1
               /\ EmptySerials # {} <=>
                      /\ Contains(cleaned, PS)
                      /\ Strip(Between(cleaned, PS, SerialStops)) = <<>>
        /\ data.serial_segments = <<(<<>>)>> => data.serial_no = <<>>

\* the segments 1PABC and a lone S were parsed
C12_Witness ==
    /\ pc = "parsed"
    /\ Delimited
    /\ SegmentsOf(cleaned) = <<P1 \o TABC, PS>>
    /\ data.serial_segments = <<(<<>>)>>
    /\ data.serial_no = <<>>

-----------------------------------------------------------------------------
(* C13 (as stated): in every record parse_nokia_string returns, qty is     *)
(* exactly one decimal digit.                                              *)
C13_Original == Parsed => (Len(data.qty) = 1 /\ IsDigit(data.qty[1]))

\* a Q with digits after it decides the quantity
QtyDecided == IF Undelimited THEN HasQDigit(cleaned) ELSE QtySegments # <<>>

\* the text after the Q that decides the quantity
QtyText ==
    IF Undelimited THEN AfterFirstQDigit(cleaned)
    ELSE Strip(From(QtySegments[Len(QtySegments)], 2))

(* C13 (amended): qty is always a non-empty string of decimal digits.  It  *)
(* is "1" when no Q followed by a digit is present, it starts with the     *)
(* first digit after the Q, and it has more than one digit exactly when    *)
(* two or more digits follow the Q and nothing but whitespace follows      *)
(* them, in which case it is all of those digits.                          *)
C13_QtyDigits ==
    Parsed =>
        /\ data.qty # <<>>
        /\ \A i \in DOMAIN data.qty : IsDigit(data.qty[i])
        /\ ~QtyDecided => data.qty = QtyOne
        /\ QtyDecided =>
               LET n == DigitRun(QtyText)
                   whole == n >= 2 /\ Strip(From(QtyText, n + 1)) = <<>>
               IN  /\ data.qty[1] = QtyText[1]
                   /\ Len(data.qty) > 1 <=> whole
                   /\ whole => data.qty = SubSeq(QtyText, 1, n)

\* the undelimited payload 1PA SB Q12 gave the quantity 12
C13_Witness ==
    /\ pc = "parsed"
    /\ Undelimited
    /\ QtyDecided
    /\ QtyText = <<"1", "2">>
    /\ data.qty = <<"1", "2">>
    /\ data.part_no = <<"A">>

-----------------------------------------------------------------------------
(* Vocabulary of the undelimited override                                  *)

\* the payload the undelimited extraction works on
Payload == DropHeader(cleaned)

\* what the quantity split alone leaves in post_qty_segments
QtySplitResult ==
    UndelimitedQty(Defaults(raw_input), Payload).post_qty_segments

\* the text after the prefix a at position i up to the next stop token or
\* the end, trimmed when trimmed is TRUE
ValueAt(t, a, i, stops, trimmed) ==
    LET b == i + Len(a)
        e == CHOOSE j \in b..(Len(t) + 1) :
                 StopAt(t, stops, j) /\ \A m \in b..(j - 1) : ~StopAt(t, stops, m)
    IN  Suffix(SubSeq(t, b, e - 1), trimmed)

Occurrences(t, a) == {i \in DOMAIN t : StartsWithAt(t, a, i)}

Least(S) == CHOOSE i \in S : \A j \in S : i <= j

\* one segment for every prefix of the list that occurs at a position of
\* at(prefix), taken at the first such position, in the order of the list
RECURSIVE SegmentsPerPrefix(_, _, _, _, _)
SegmentsPerPrefix(t, prefixes, stops, valued, trimmed) ==
    IF prefixes = <<>> THEN <<>>
    ELSE LET a == Head(prefixes)
             at == {i \in Occurrences(t, a) :
                       ~valued \/ ValueAt(t, a, i, stops, trimmed) # <<>>}
         IN  (IF at = {} THEN <<>>
              ELSE <<a \o ValueAt(t, a, Least(at), stops, trimmed)>>)
                 \o SegmentsPerPrefix(t, Tail(prefixes), stops, valued, trimmed)

(* C14 (as stated): in undelimited mode, when the payload holds at least   *)
(* one of 4L, 18V, 10D, post_qty_segments is one segment for each of these *)
(* prefixes present, each running from its prefix up to the next known     *)
(* prefix or the end, in the canonical prefix order; when none is present  *)
(* the quantity split's result is kept.  (Read in the claim's favour: a    *)
(* prefix counts as present where a value that is not blank follows it,    *)
(* and the value is trimmed.)                                              *)
C14_Original ==
    (Parsed /\ Undelimited) =>
        LET scan == SegmentsPerPrefix(Payload, AuxPattern, NamedStops, TRUE, TRUE)
        IN  data.post_qty_segments = IF scan # <<>> THEN scan ELSE QtySplitResult

(* C14 (amended): in undelimited mode the whole-payload scan looks for 4L  *)
(* and 18V only (10D only ends a value).  For each of the two, in this     *)
(* order, it yields the prefix followed by the trimmed text up to the next *)
(* of 4L, 18V, 10D, Q, 1P, S or the end, taken at the first occurrence     *)
(* where that text is not blank.  When it yields a segment its result      *)
(* replaces post_qty_segments, so a 10D segment of the quantity split is   *)
(* lost; when it yields none the quantity split's result is kept.          *)
C14_UndelimitedOverride ==
    (Parsed /\ Undelimited) =>
        LET scan == SegmentsPerPrefix(Payload, <<P4L, P18V>>, NamedStops, TRUE, TRUE)
        IN  data.post_qty_segments = IF scan # <<>> THEN scan ELSE QtySplitResult

\* the undelimited payload Q14LIN10DZ kept 4LIN and lost 10DZ
C14_Witness ==
    /\ pc = "parsed"
    /\ Undelimited
    /\ cleaned = PQ \o <<"1">> \o P4L \o TIN \o P10D \o <<"Z">>
    /\ QtySplitResult = <<P4L \o TIN, P10D \o <<"Z">>>>
    /\ data.post_qty_segments = <<P4L \o TIN>>

-----------------------------------------------------------------------------
(* Vocabulary of the splitter's contract                                   *)

AuxAt(t, i) == \E a \in {P4L, P18V, P10D} : StartsWithAt(t, a, i)

AuxOccurrences(t) == {i \in DOMAIN t : AuxAt(t, i)}

NoWhitespace(t) == \A i \in DOMAIN t : ~IsSpace(t[i])

(* C15: for every non-empty text t without whitespace,                     *)
(* _split_additional_segments(t) returns segments in scan order whose      *)
(* concatenation is t; a cut is made at every occurrence of 4L, 18V or     *)
(* 10D, so every segment but a possible leading one starts with one of the *)
(* prefixes and holds no further occurrence of any; the text before the    *)
(* first occurrence is the leading segment, a text with no occurrence      *)
(* comes back as [t], and the empty text gives [].                         *)
C15_SplitterContract ==
    pc = "split" =>
        LET t == raw_input
            segs == data
            occ == AuxOccurrences(t)
        IN  /\ t = <<>> => segs = <<>>
            /\ (t # <<>> /\ NoWhitespace(t)) =>
                   /\ Flatten(segs) = t
                   /\ \A k \in DOMAIN segs : segs[k] # <<>>
                   /\ \A k \in DOMAIN segs :
                          AuxOccurrences(segs[k]) \subseteq {1}
                   /\ \A k \in 2..Len(segs) : AuxAt(segs[k], 1)
                   /\ Cardinality({k \in DOMAIN segs : AuxAt(segs[k], 1)})
                          = Cardinality(occ)
                   /\ occ = {} => segs = <<t>>
                   /\ (occ # {} /\ 1 \notin occ) =>
                          segs[1] = SubSeq(t, 1, Least(occ) - 1)

\* the text A4L18V was split into A, 4L and 18V
C15_Witness ==
    /\ pc = "split"
    /\ raw_input = <<"A">> \o P4L \o P18V
    /\ data = <<(<<"A">>), P4L, P18V>>

====
